---------------------------- MODULE Spec2Model ----------------------------
(***************************************************************************)
(* A model of postfix_daily_summary.py: the two-pass log correlation, the  *)
(* metrics of a run, the trend computation over the persisted history and  *)
(* the history write.  Log lines are records of what the program's regular *)
(* expressions extract from them; floating-point quantities are exact      *)
(* rationals <<numerator, denominator>>.                                   *)
(***************************************************************************)
EXTENDS Integers, Sequences, FiniteSets, TLC

(***************************************************************************)
(* Bounds of the model.                                                    *)
(***************************************************************************)
MaxLines == 3       \* lines over the configured log files (Spec, ClassSpec)
MaxQueueLines == 6  \* lines of the mailq output (QueueSpec)
MaxRerunLines == 2  \* lines over the configured log files (RerunSpec)
MaxRuns == 2        \* invocations of main() over the same logs (RerunSpec)
MaxHist == 2        \* dates in the history file before the first run (RerunSpec)
MaxFaultLines == 1  \* log lines of an invocation of FaultSpec
MaxAlertLines == 144001 \* lines of the longest log of AlertSpec
MaxVolumeLines == 101 \* lines of a log of HealthSpec past the volume of line 724
MaxErrorLines == 11 \* deferred and bounced lines of a log of HealthSpec
MaxHealthLoops == 11 \* mail loops of a log of HealthSpec
MaxSizeLines == 2   \* log lines of an invocation of SizeSpec
MaxStatusLines == 2 \* log lines of an invocation of StatusSpec
MaxTrendHist == 4   \* dates in the history file before the run (TrendSpec)

(***************************************************************************)
(* Exact rationals.  <<n, d>> with d > 0 and gcd(n, d) = 1.                *)
(***************************************************************************)
RECURSIVE Gcd(_, _)
Gcd(a, b) == IF b = 0 THEN a ELSE Gcd(b, a % b)

Abs(x) == IF x < 0 THEN -x ELSE x

Rat(n, d) ==
    LET s == IF d < 0 THEN -1 ELSE 1
        g == Gcd(Abs(n), Abs(d))
    IN  <<(s * n) \div g, (s * d) \div g>>

R(n) == <<n, 1>>
RAdd(x, y) == Rat(x[1] * y[2] + y[1] * x[2], x[2] * y[2])
RSub(x, y) == Rat(x[1] * y[2] - y[1] * x[2], x[2] * y[2])
RMul(x, y) == Rat(x[1] * y[1], x[2] * y[2])
RDiv(x, y) == Rat(x[1] * y[2], x[2] * y[1])
RLt(x, y) == x[1] * y[2] < y[1] * x[2]
RLe(x, y) == x[1] * y[2] <= y[1] * x[2]
RMax(x, y) == IF RLt(x, y) THEN y ELSE x
RMin(x, y) == IF RLt(y, x) THEN y ELSE x

\* Python's true division: ZeroDivisionError is the value DivError.
DivError == <<0, 0>>
PyDiv(n, d) == IF d = 0 THEN DivError ELSE Rat(n, d)
\* n / d * 100
PyRate(n, d) == IF d = 0 THEN DivError ELSE RMul(Rat(n, d), R(100))

RECURSIVE RSum(_)
RSum(s) ==
    IF s = <<>> THEN R(0)
    ELSE IF Len(s) = 1 THEN s[1]
    ELSE LET h == Len(s) \div 2
         IN  RAdd(RSum(SubSeq(s, 1, h)), RSum(SubSeq(s, h + 1, Len(s))))

RECURSIVE ISum(_)
ISum(s) ==
    IF s = <<>> THEN 0
    ELSE IF Len(s) = 1 THEN s[1]
    ELSE LET h == Len(s) \div 2
         IN  ISum(SubSeq(s, 1, h)) + ISum(SubSeq(s, h + 1, Len(s)))

(***************************************************************************)
(* Python dict and Counter as functions on their key sets.                 *)
(***************************************************************************)
EmptyDict == [k \in {} |-> 0]
Put(d, k, v) == (k :> v) @@ d
Get(d, k, default) == IF k \in DOMAIN d THEN d[k] ELSE default
Inc(c, k) == Put(c, k, Get(c, k, 0) + 1)


\* Log lines.  A line is the record of what the regular expressions and
\* substring tests of main() find in it:
\*   day         the date prefix, in days relative to the date of the run
\*   hour        the hour of a leading YYYY-MM-DDThh: timestamp, or -1
\*   client_id, client_host   r'([A-Za-z0-9]+): client=([^[]+)\['
\*   pickup_id   r'postfix/pickup\[[^\]]+\]:\s+([A-Za-z0-9]+):\s+uid='
\*   size_id, size            r'([A-Za-z0-9]+): from=<[^>]*>, size=(\d+)'
\*   auth_fail, auth_user     the authentication-failure test and r'user=([^,\\s]+)'
\*   smtp_id     r'postfix/smtp\[[^\]]+\]:\s+([A-Za-z0-9]+):'
\*   st_sent, st_deferred, st_bounced   the status markers of lines 429, 497, 530
\*   from, to    r'from=<([^>]*)>' and r'to=<([^>]*)>'
\*   delay       r'delay=(\d+\.?\d*)', in hundredths of a second, or -1
\*   inline_size r'size=(\d+)' as line 435 matches it in a sent line, or -1
\*   marks       the error-reason substrings of lines 514-550 the line contains
\* The string None stands for a failed match.  An address is the pair
\* <<local part, domain>>, with an empty domain when it holds no @, and
\* NoAddr stands for a failed match of from=<...> or to=<...>.
None == "None"
NoAddr == <<>>

Blank ==
    [day |-> 0, hour |-> -1,
     client_id |-> None, client_host |-> None, pickup_id |-> None,
     size_id |-> None, size |-> 0,
     auth_fail |-> FALSE, auth_user |-> None,
     smtp_id |-> None, st_sent |-> FALSE, st_deferred |-> FALSE,
     st_bounced |-> FALSE, from |-> NoAddr, to |-> NoAddr, delay |-> -1,
     inline_size |-> -1,
     marks |-> {}]

\* 2026-11-03T10:00:01 mx postfix/smtpd[1]: A1: client=host1[10.0.0.1]
LClient == [Blank EXCEPT !.hour = 10, !.client_id = "A1", !.client_host = "host1"]

\* 2026-11-02T23:59:58 mx postfix/pickup[2]: A1: uid=1000 from=<root>
LPickup ==
    [Blank EXCEPT !.day = -1, !.hour = 23, !.pickup_id = "A1", !.from = <<"root", "">>]

\* 2026-11-03T10:00:01 mx postfix/qmgr[3]: A1: from=<a@x.org>, size=2048, nrcpt=1
LQmgr ==
    [Blank EXCEPT !.hour = 10, !.size_id = "A1", !.size = 2048, !.from = <<"a", "x.org">>]

\* 2026-11-03T11:30:00 mx postfix/qmgr[3]: A1: from=<a@x.org>, size=500, nrcpt=1
LQmgrSmall ==
    [Blank EXCEPT !.hour = 11, !.size_id = "A1", !.size = 500, !.from = <<"a", "x.org">>]

\* 2026-11-03T10:00:02 mx postfix/smtp[4]: A1: to=<b@y.org>, relay=r[1.2.3.4]:25,
\*   delay=1.2, dsn=2.0.0, status=sent (250 ok)
LSent ==
    [Blank EXCEPT !.hour = 10, !.smtp_id = "A1", !.st_sent = TRUE,
                  !.to = <<"b", "y.org">>, !.delay = 120]

\* 2026-11-02T22:00:00 mx postfix/smtp[4]: B2: to=<c@z.org>, relay=none, delay=40,
\*   status=deferred (connect to z.org[5.6.7.8]:25: Connection timed out)
LDeferred ==
    [Blank EXCEPT !.day = -1, !.hour = 22, !.smtp_id = "B2", !.st_deferred = TRUE,
                  !.to = <<"c", "z.org">>, !.delay = 4000,
                  !.marks = {"Connection timed out"}]

\* 2026-11-03T10:00:03 mx postfix/local[5]: A1: to=<d@eusd.org>, relay=local,
\*   delay=0.3, status=bounced (user unknown)
LBounced ==
    [Blank EXCEPT !.hour = 10, !.st_bounced = TRUE, !.to = <<"d", "eusd.org">>,
                  !.delay = 30, !.marks = {"user unknown"}]

\* 2026-11-03T10:00:04 mx postfix/smtp[4]: A1: to=<b@y.org>, relay=r[1.2.3.4]:25,
\*   delay=2, status=sent (250 queued, was status=deferred and status=bounced)
LMulti ==
    [Blank EXCEPT !.hour = 10, !.smtp_id = "A1", !.st_sent = TRUE,
                  !.st_deferred = TRUE, !.st_bounced = TRUE,
                  !.to = <<"b", "y.org">>, !.delay = 200]

\* 2026-11-01T09:00:00 mx postfix/smtp[4]: A1: to=<b@y.org>, delay=1, status=sent (ok)
LOld ==
    [Blank EXCEPT !.day = -2, !.hour = 9, !.smtp_id = "A1", !.st_sent = TRUE,
                  !.to = <<"b", "y.org">>, !.delay = 100]

\* 2026-11-03T08:00:00 mx postfix/smtpd[1]: warning: h[9.9.9.9]: SASL LOGIN
\*   authentication failed: user=eve
LAuth ==
    [Blank EXCEPT !.hour = 8, !.auth_fail = TRUE, !.auth_user = "eve"]

\* 2026-11-01T09:00:00 mx postfix/smtpd[1]: A1: client=host9[10.0.0.9]
LOldClient ==
    [Blank EXCEPT !.day = -2, !.hour = 9, !.client_id = "A1", !.client_host = "host9"]

\* 2026-11-03T12:00:00 mx postfix/smtp[4]: C3: from=<a@eusd.org>, to=<b@eusd.org>,
\*   relay=local, delay=0.05, status=sent (delivered)
LLoop ==
    [Blank EXCEPT !.hour = 12, !.smtp_id = "C3", !.st_sent = TRUE,
                  !.from = <<"a", "eusd.org">>, !.to = <<"b", "eusd.org">>,
                  !.delay = 5]

(***************************************************************************)
(* All ways to lay at most n lines of alphabet S out over the two          *)
(* configured log files.                                                   *)
(***************************************************************************)
SeqsUpTo(S, n) == UNION {[1..k -> S] : k \in 0..n}

LogSets(S, n) ==
    {fs \in [1..2 -> SeqsUpTo(S, n)] : Len(fs[1]) + Len(fs[2]) <= n}


(***************************************************************************)
(* State.  files and history_file are the environment (the log files and   *)
(* the JSON history document on disk); everything else is local to one     *)
(* invocation of main().  The frequency tables that only the rendered      *)
(* report reads (sender and recipient domains, sender-recipient pairs,     *)
(* relay samples, rate-limit rejections) are left out.                     *)
(***************************************************************************)
VARIABLES
    files,            \* 1..2 -> sequence of lines: LOG_PATHS' contents
    history_file,     \* date -> snapshot: the content of HISTORY_FILE
    run,              \* invocations of main() started so far
    pc,               \* position of the running invocation
    idx,              \* lines the current pass has consumed
    today_date,       \* the date main() computed at line 328
    historical_data,  \* main()'s historical_data
    ctx,              \* message_clients, message_sizes, sending_hosts, auth_failures
    agg,              \* the counters of the second pass
    stats,            \* the scalars of lines 554-581
    trends,           \* main()'s trends
    today_stats,      \* main()'s today_stats
    reported,         \* the today_stats of every invocation that reached the save
    issued,           \* the trends and alerts of every invocation that computed them
    alerts,           \* main()'s alerts
    raised,           \* the exception that ended the invocation and its line
    env,              \* which open() calls fail, and how
    queue             \* postfix_queue_alert.py: its position, counts and alert

vars ==
    <<files, history_file, run, pc, idx, today_date, historical_data, ctx, agg,
      stats, trends, today_stats, reported, issued, alerts, raised, env,
                   queue>>

(***************************************************************************)
(* postfix_queue_alert.py.  A line of the mailq output is the record of    *)
(* what the tests of lines 14-16 find in it; the output is a sequence of   *)
(* lines, and ok is FALSE when check_output raises (mailq is missing or    *)
(* exits with an error).                                                   *)
(***************************************************************************)
\* line 6
ALERT_THRESHOLD == 5

QLine == [first_alnum |-> FALSE, dash |-> FALSE, colon |-> FALSE,
          active |-> FALSE, deferred |-> FALSE]

\* A1B2C3D4
QId == [QLine EXCEPT !.first_alnum = TRUE]
\* A1B2C3D4     2048 Tue Nov  3 10:00:01  a@x.org
QEntry == [QLine EXCEPT !.first_alnum = TRUE, !.colon = TRUE]
\* A1B2C3D4 active
QActive == [QLine EXCEPT !.first_alnum = TRUE, !.active = TRUE]
\* (deferred transport)
QDeferred == [QLine EXCEPT !.deferred = TRUE]

QueueLines == {QId, QEntry, QActive, QDeferred}

\* Lines 11-19: total_ids, active, deferred.
get_queue_counts(mailq) ==
    LET output == mailq.output
        lines == DOMAIN output
    IN  IF ~mailq.ok THEN <<-1, -1, -1>>
        ELSE <<Cardinality({i \in lines : /\ output[i].first_alnum
                                          /\ ~output[i].dash
                                          /\ ~output[i].colon}),
               Cardinality({i \in lines : output[i].active}),
               Cardinality({i \in lines : output[i].deferred})>>

\* Mutant: the alert needs more than ALERT_THRESHOLD messages.
ShouldAlertAbove(total) == total > ALERT_THRESHOLD

\* Line 37.
ShouldAlert(total) == total >= ALERT_THRESHOLD

\* The script is not running.
QueueIdle ==
    [pc |-> "idle", mailq |-> [ok |-> TRUE, output |-> <<>>], counts |-> <<>>,
     alert |-> <<>>, raised |-> <<>>]

mainVars ==
    <<files, history_file, run, pc, idx, today_date, historical_data, ctx, agg,
      stats, trends, today_stats, reported, issued, alerts, raised, env>>

\* Line 36: total, active, deferred = get_queue_counts().
GetQueueCounts ==
    /\ queue.pc = "start"
    /\ queue' = [queue EXCEPT !.counts = get_queue_counts(queue.mailq),
                              !.pc = "counted"]
    /\ UNCHANGED mainVars

\* Lines 37-38: send_alert hands the three counts to the SMTP server.
CheckThreshold ==
    /\ queue.pc = "counted"
    /\ queue' = [queue EXCEPT
                   !.alert = IF ShouldAlert(queue.counts[1]) THEN queue.counts ELSE @,
                   !.pc = "done"]
    /\ UNCHANGED mainVars

(***************************************************************************)
(* log_lines_today, and the order in which the two nested for loops of a   *)
(* pass call it: per file, the lines of today, then those of yesterday.    *)
(***************************************************************************)
IsToday(line, today) == line.day = today

log_lines_today(logfile, today) ==
    SelectSeq(logfile, LAMBDA line : IsToday(line, today))

FileLines(fs, f, today) ==
    log_lines_today(fs[f], today) \o log_lines_today(fs[f], today - 1)

\* The lines of the first n files of LOG_PATHS, in the order a pass reads them.
RECURSIVE FilesLines(_, _, _)
FilesLines(fs, n, today) ==
    IF n = 0 THEN <<>>
    ELSE FilesLines(fs, n - 1, today) \o FileLines(fs, n, today)

PassLines(fs, today) == FilesLines(fs, Len(fs), today)

\* The files a pass opens before the first open() that fails with an error
\* other than FileNotFoundError, and the lines it reads from them.  A missing
\* file is a file without lines (lines 191-192).
OpenedFiles(fs, e) ==
    IF e.log_errors = {} THEN Len(fs)
    ELSE (CHOOSE f \in e.log_errors : \A g \in e.log_errors : f <= g) - 1

LinesRead(fs, today, e) == FilesLines(fs, OpenedFiles(fs, e), today)

\* No exception has ended the invocation.
NotRaised == <<>>

NoFaults == [log_errors |-> {}, history_write |-> "ok"]

(***************************************************************************)
(* The local state of main() at line 374.                                  *)
(***************************************************************************)
NewCtx ==
    [message_clients |-> EmptyDict, message_sizes |-> EmptyDict,
     sending_hosts |-> EmptyDict, auth_failures |-> EmptyDict]

NewAgg ==
    [sent_count |-> 0, deferred_count |-> 0, bounced_count |-> 0,
     total_size |-> 0, senders |-> EmptyDict, recipients |-> EmptyDict,
     recipient_hosts |-> EmptyDict, errors |-> <<>>,
     error_categories |-> EmptyDict, hourly_traffic |-> EmptyDict,
     queue_times |-> <<>>, retry_patterns |-> EmptyDict, mail_loops |-> <<>>,
     size_distribution |-> EmptyDict, hostname |-> None]

NoStats ==
    [avg_queue_time |-> R(0), total_messages |-> 0, success_rate |-> R(0),
     avg_message_size |-> R(0), defer_rate |-> R(0), health_score |-> R(0)]

\* Mutant: a size is recorded only for an id that already has a client.
Pass1LineSizeNeedsClient(c, line) ==
    LET c1 == IF line.client_id # None
              THEN [c EXCEPT
                      !.message_clients = Put(@, line.client_id, line.client_host),
                      !.sending_hosts = Inc(@, line.client_host)]
              ELSE c
        c2 == IF line.pickup_id # None
              THEN [c1 EXCEPT
                      !.message_clients = Put(@, line.pickup_id, "localhost"),
                      !.sending_hosts = Inc(@, "localhost")]
              ELSE c1
        c3 == IF line.size_id # None /\ line.size_id \in DOMAIN c2.message_clients
              THEN [c2 EXCEPT !.message_sizes = Put(@, line.size_id, line.size)]
              ELSE c2
    IN  IF line.auth_fail
        THEN [c3 EXCEPT !.auth_failures =
                 Inc(@, IF line.auth_user # None THEN line.auth_user ELSE "unknown")]
        ELSE c3

(***************************************************************************)
(* One iteration of the first pass (lines 379-406).                        *)
(***************************************************************************)
Pass1Line(c, line) ==
    LET c1 == IF line.client_id # None
              THEN [c EXCEPT
                      !.message_clients = Put(@, line.client_id, line.client_host),
                      !.sending_hosts = Inc(@, line.client_host)]
              ELSE c
        c2 == IF line.pickup_id # None
              THEN [c1 EXCEPT
                      !.message_clients = Put(@, line.pickup_id, "localhost"),
                      !.sending_hosts = Inc(@, "localhost")]
              ELSE c1
        c3 == IF line.size_id # None
              THEN [c2 EXCEPT !.message_sizes = Put(@, line.size_id, line.size)]
              ELSE c2
    IN  IF line.auth_fail
        THEN [c3 EXCEPT !.auth_failures =
                 Inc(@, IF line.auth_user # None THEN line.auth_user ELSE "unknown")]
        ELSE c3


(***************************************************************************)
(* get_domain (lines 194-198).                                             *)
(***************************************************************************)
get_domain(email) ==
    IF email = NoAddr \/ email[2] = "" THEN "unknown" ELSE email[2]

(***************************************************************************)
(* The size bucket of lines 465-474.                                       *)
(***************************************************************************)
SizeBucket(msg_size) ==
    IF msg_size < 1024 THEN "<1KB"
    ELSE IF msg_size < 10240 THEN "1-10KB"
    ELSE IF msg_size < 102400 THEN "10-100KB"
    ELSE IF msg_size < 1048576 THEN "100KB-1MB"
    ELSE ">1MB"

(***************************************************************************)
(* The error categories of lines 514-525 and 541-550: the first test that  *)
(* succeeds decides.                                                       *)
(***************************************************************************)
\* Mutant: greylisting is tested before the temporary failure.
DeferredCategoryGreyFirst(marks) ==
    IF "Connection timed out" \in marks THEN "Connection Timeout"
    ELSE IF "Connection refused" \in marks THEN "Connection Refused"
    ELSE IF "Temporary lookup failure" \in marks THEN "DNS Issues"
    ELSE IF "Greylisted" \in marks THEN "Greylisted"
    ELSE IF "Temporary failure" \in marks THEN "Temporary Failure"
    ELSE "Other Deferred"

DeferredCategory(marks) ==
    IF "Connection timed out" \in marks THEN "Connection Timeout"
    ELSE IF "Connection refused" \in marks THEN "Connection Refused"
    ELSE IF "Temporary lookup failure" \in marks THEN "DNS Issues"
    ELSE IF "Temporary failure" \in marks THEN "Temporary Failure"
    ELSE IF "Greylisted" \in marks THEN "Greylisted"
    ELSE "Other Deferred"

BouncedCategory(marks) ==
    IF "user unknown" \in marks \/ "recipient address rejected" \in marks
    THEN "Unknown Recipient"
    ELSE IF "mailbox full" \in marks \/ "quota exceeded" \in marks
    THEN "Mailbox Full"
    ELSE IF "rejected" \in marks /\ "spam" \in marks THEN "Rejected as Spam"
    ELSE IF "blocked" \in marks \/ "blacklisted" \in marks
    THEN "Blocked/Blacklisted"
    ELSE "Other Bounced"

(***************************************************************************)
(* The recipient bookkeeping the three branches share (lines 446-451,      *)
(* 501-506, 533-538).                                                      *)
(***************************************************************************)
CountRecipient(a, line, hostname) ==
    IF line.to # NoAddr
    THEN [a EXCEPT !.recipients = Inc(@, line.to),
                   !.recipient_hosts = Inc(@, <<line.to, hostname>>)]
    ELSE a

(***************************************************************************)
(* The sent branch (lines 430-494).                                        *)
(***************************************************************************)
\* Mutant: a delay of exactly 0.1 s counts as a loop.
SentLineLoopInclusive(a, c, line, hostname) ==
    LET a1 == [a EXCEPT !.sent_count = @ + 1,
                        !.hourly_traffic =
                            IF line.hour >= 0 THEN Inc(@, line.hour) ELSE @,
                        !.senders =
                            IF line.from # NoAddr THEN Inc(@, line.from) ELSE @]
        a2 == CountRecipient(a1, line, hostname)
        a3 == IF line.smtp_id \in DOMAIN c.message_sizes
              THEN LET msg_size == c.message_sizes[line.smtp_id]
                   IN  [a2 EXCEPT !.total_size = @ + msg_size,
                                  !.size_distribution = Inc(@, SizeBucket(msg_size))]
              ELSE a2
        a4 == IF line.delay >= 0
              THEN [a3 EXCEPT !.queue_times = Append(@, line.delay)]
              ELSE a3
    IN  IF line.delay >= 0 /\ line.delay <= 10
           /\ line.from # NoAddr /\ line.to # NoAddr
        THEN IF line.from = line.to
             THEN [a4 EXCEPT !.mail_loops = Append(@, <<"Self-loop", line.from>>)]
             ELSE IF get_domain(line.from) = get_domain(line.to)
                     /\ get_domain(line.from) = "eusd.org"
             THEN [a4 EXCEPT !.mail_loops =
                      Append(@, <<"Internal loop", line.from, line.to>>)]
             ELSE a4
        ELSE a4

SentLine(a, c, line, hostname) ==
    LET a1 == [a EXCEPT !.sent_count = @ + 1,
                        !.hourly_traffic =
                            IF line.hour >= 0 THEN Inc(@, line.hour) ELSE @,
                        !.senders =
                            IF line.from # NoAddr THEN Inc(@, line.from) ELSE @]
        a2 == CountRecipient(a1, line, hostname)
        a3 == IF line.smtp_id \in DOMAIN c.message_sizes
              THEN LET msg_size == c.message_sizes[line.smtp_id]
                   IN  [a2 EXCEPT !.total_size = @ + msg_size,
                                  !.size_distribution = Inc(@, SizeBucket(msg_size))]
              ELSE a2
        a4 == IF line.delay >= 0
              THEN [a3 EXCEPT !.queue_times = Append(@, line.delay)]
              ELSE a3
    IN  IF line.delay >= 0 /\ line.delay < 10
           /\ line.from # NoAddr /\ line.to # NoAddr
        THEN IF line.from = line.to
             THEN [a4 EXCEPT !.mail_loops = Append(@, <<"Self-loop", line.from>>)]
             ELSE IF get_domain(line.from) = get_domain(line.to)
                     /\ get_domain(line.from) = "eusd.org"
             THEN [a4 EXCEPT !.mail_loops =
                      Append(@, <<"Internal loop", line.from, line.to>>)]
             ELSE a4
        ELSE a4

(***************************************************************************)
(* The deferred branch (lines 498-527) and the bounced branch (531-552).   *)
(***************************************************************************)
DeferredLine(a, line, hostname) ==
    LET a1 == [a EXCEPT !.deferred_count = @ + 1]
        a2 == CountRecipient(a1, line, hostname)
        a3 == IF line.to # NoAddr /\ line.from # NoAddr
              THEN [a2 EXCEPT !.retry_patterns = Inc(@, line.from)]
              ELSE a2
    IN  [a3 EXCEPT !.error_categories = Inc(@, DeferredCategory(line.marks)),
                   !.errors = Append(@, line)]

BouncedLine(a, line, hostname) ==
    LET a1 == [a EXCEPT !.bounced_count = @ + 1]
        a2 == CountRecipient(a1, line, hostname)
    IN  [a2 EXCEPT !.error_categories = Inc(@, BouncedCategory(line.marks)),
                   !.errors = Append(@, line)]

\* Mutant: three independent ifs in place of the if / elif / elif chain.
Pass2LineNoElif(a, c, line) ==
    LET hostname == Get(c.message_clients, line.smtp_id, "unknown")
        b0 == [a EXCEPT !.hostname = hostname]
        b1 == IF line.st_sent THEN SentLine(b0, c, line, hostname) ELSE b0
        b2 == IF line.st_deferred THEN DeferredLine(b1, line, hostname) ELSE b1
    IN  IF line.st_bounced THEN BouncedLine(b2, line, hostname) ELSE b2

(***************************************************************************)
(* One iteration of the second pass (lines 418-552): the host is looked up *)
(* in message_clients, then the if / elif / elif chain classifies.         *)
(***************************************************************************)
Pass2Line(a, c, line) ==
    LET hostname == Get(c.message_clients, line.smtp_id, "unknown")
        b == [a EXCEPT !.hostname = hostname]
    IN  IF line.st_sent THEN SentLine(b, c, line, hostname)
        ELSE IF line.st_deferred THEN DeferredLine(b, line, hostname)
        ELSE IF line.st_bounced THEN BouncedLine(b, line, hostname)
        ELSE b


\* Mutant: bounced messages are left out of total_messages.
MetricsNoBounced(a) ==
    LET total_messages == a.sent_count + a.deferred_count
    IN  [avg_queue_time |->
             IF a.queue_times # <<>>
             THEN PyDiv(ISum(a.queue_times), 100 * Len(a.queue_times))
             ELSE R(0),
         total_messages |-> total_messages,
         success_rate |->
             IF total_messages > 0
             THEN PyRate(a.sent_count, total_messages)
             ELSE R(0),
         avg_message_size |->
             IF total_messages > 0 THEN PyDiv(a.total_size, total_messages)
             ELSE R(0),
         defer_rate |->
             IF total_messages > 0
             THEN PyRate(a.deferred_count, total_messages)
             ELSE R(0),
         health_score |-> R(0)]

\* Mutant: the rates are divided without the total_messages > 0 tests.
MetricsUnguarded(a) ==
    LET total_messages == a.sent_count + a.deferred_count + a.bounced_count
    IN  [avg_queue_time |->
             IF a.queue_times # <<>>
             THEN PyDiv(ISum(a.queue_times), 100 * Len(a.queue_times))
             ELSE R(0),
         total_messages |-> total_messages,
         success_rate |-> PyRate(a.sent_count, total_messages),
         avg_message_size |-> PyDiv(a.total_size, total_messages),
         defer_rate |-> PyRate(a.deferred_count, total_messages),
         health_score |-> R(0)]

(***************************************************************************)
(* The scalars of lines 554-573.  Delays are held in hundredths of a       *)
(* second, avg_queue_time is in seconds.                                   *)
(***************************************************************************)
Metrics(a) ==
    LET total_messages == a.sent_count + a.deferred_count + a.bounced_count
    IN  [avg_queue_time |->
             IF a.queue_times # <<>>
             THEN PyDiv(ISum(a.queue_times), 100 * Len(a.queue_times))
             ELSE R(0),
         total_messages |-> total_messages,
         success_rate |->
             IF total_messages > 0
             THEN PyRate(a.sent_count, total_messages)
             ELSE R(0),
         avg_message_size |->
             IF total_messages > 0 THEN PyDiv(a.total_size, total_messages)
             ELSE R(0),
         defer_rate |->
             IF total_messages > 0
             THEN PyRate(a.deferred_count, total_messages)
             ELSE R(0),
         health_score |-> R(0)]

(***************************************************************************)
(* The health score of lines 576-581.                                      *)
(***************************************************************************)
\* Mutant: the authentication penalty has no cap.
HealthScoreAuthUncapped(st, c, a) ==
    LET h0 == R(100)
        h1 == IF RLt(st.success_rate, R(95))
              THEN RSub(h0, RMul(RSub(R(95), st.success_rate), R(2)))
              ELSE h0
        h2 == IF RLt(R(30), st.avg_queue_time)
              THEN RSub(h1, RMin(RSub(st.avg_queue_time, R(30)), R(20)))
              ELSE h1
        n  == Cardinality(DOMAIN c.auth_failures)
        h3 == IF n > 0
              THEN RSub(h2, R(n * 5))
              ELSE h2
        h4 == IF a.mail_loops # <<>>
              THEN RSub(h3, R(Len(a.mail_loops) * 10))
              ELSE h3
    IN  RMax(R(0), h4)

\* Mutant: a day without messages loses no points for its success rate.
HealthScoreIdle(st, c, a) ==
    LET h0 == R(100)
        h1 == IF st.total_messages > 0 /\ RLt(st.success_rate, R(95))
              THEN RSub(h0, RMul(RSub(R(95), st.success_rate), R(2)))
              ELSE h0
        h2 == IF RLt(R(30), st.avg_queue_time)
              THEN RSub(h1, RMin(RSub(st.avg_queue_time, R(30)), R(20)))
              ELSE h1
        n  == Cardinality(DOMAIN c.auth_failures)
        h3 == IF n > 0
              THEN RSub(h2, R(IF n * 5 < 30 THEN n * 5 ELSE 30))
              ELSE h2
        h4 == IF a.mail_loops # <<>>
              THEN RSub(h3, R(Len(a.mail_loops) * 10))
              ELSE h3
    IN  RMax(R(0), h4)

HealthScore(st, c, a) ==
    LET h0 == R(100)
        h1 == IF RLt(st.success_rate, R(95))
              THEN RSub(h0, RMul(RSub(R(95), st.success_rate), R(2)))
              ELSE h0
        h2 == IF RLt(R(30), st.avg_queue_time)
              THEN RSub(h1, RMin(RSub(st.avg_queue_time, R(30)), R(20)))
              ELSE h1
        n  == Cardinality(DOMAIN c.auth_failures)
        h3 == IF n > 0
              THEN RSub(h2, R(IF n * 5 < 30 THEN n * 5 ELSE 30))
              ELSE h2
        h4 == IF a.mail_loops # <<>>
              THEN RSub(h3, R(Len(a.mail_loops) * 10))
              ELSE h3
    IN  RMax(R(0), h4)

RECURSIVE CounterTotal(_)
CounterTotal(c) ==
    IF DOMAIN c = {} THEN 0
    ELSE LET k == CHOOSE x \in DOMAIN c : TRUE
         IN  c[k] + CounterTotal([x \in (DOMAIN c) \ {k} |-> c[x]])

(***************************************************************************)
(* today_stats (lines 617-627): the snapshot kept in the history.          *)
(***************************************************************************)
TodayStats(st, c, a) ==
    [m \in {"sent_count", "deferred_count", "bounced_count", "success_rate",
            "avg_queue_time", "total_size", "health_score",
            "auth_failures_count", "mail_loops_count"} |->
       CASE m = "sent_count" -> R(a.sent_count)
         [] m = "deferred_count" -> R(a.deferred_count)
         [] m = "bounced_count" -> R(a.bounced_count)
         [] m = "success_rate" -> st.success_rate
         [] m = "avg_queue_time" -> st.avg_queue_time
         [] m = "total_size" -> R(a.total_size)
         [] m = "health_score" -> st.health_score
         [] m = "auth_failures_count" -> R(CounterTotal(c.auth_failures))
         [] OTHER -> R(Len(a.mail_loops))]

(***************************************************************************)
(* The alerts of lines 583-609, in the order of the if statements.  An     *)
(* alert is the pair of its rule and the value its text shows.             *)
(***************************************************************************)
min_success_rate == 95
max_queue_time == 30
max_auth_failures == 50
max_hourly_volume == 500
max_avg_size == 10485760
max_defer_rate == 5

\* max(counter.values()) if counter else 0, and the same with min
MaxValue(c) ==
    IF DOMAIN c = {} THEN 0
    ELSE c[CHOOSE k \in DOMAIN c : \A j \in DOMAIN c : c[j] <= c[k]]

MinValue(c) ==
    IF DOMAIN c = {} THEN 0
    ELSE c[CHOOSE k \in DOMAIN c : \A j \in DOMAIN c : c[k] <= c[j]]

\* line 573, in messages per minute
Throughput(st) == Rat(st.total_messages, 24 * 60)

AlertIf(condition, alert) == IF condition THEN <<alert>> ELSE <<>>

\* line 36
HIGH_VOLUME_MODE == TRUE

\* Mutant: the authentication rule counts the users, not the failures.
AlertsAuthUsers(st, c, a, tr) ==
    AlertIf(RLt(st.success_rate, R(min_success_rate)),
            <<"Low success rate", st.success_rate>>)
    \o AlertIf(RLt(R(max_queue_time), st.avg_queue_time),
               <<"High queue time", st.avg_queue_time>>)
    \o AlertIf(Cardinality(DOMAIN c.auth_failures) > max_auth_failures,
               <<"authentication failures", CounterTotal(c.auth_failures)>>)
    \o AlertIf(a.mail_loops # <<>>,
               <<"potential mail loops detected", Len(a.mail_loops)>>)
    \o AlertIf("success_rate" \in DOMAIN tr
                   /\ RLt(tr["success_rate"].percentage, R(-10)),
               <<"Success rate declining", tr["success_rate"].percentage>>)
    \o AlertIf("avg_queue_time" \in DOMAIN tr
                   /\ RLt(R(50), tr["avg_queue_time"].percentage),
               <<"Queue time increasing", tr["avg_queue_time"].percentage>>)
    \o AlertIf(HIGH_VOLUME_MODE /\ MaxValue(a.hourly_traffic) > max_hourly_volume,
               <<"Peak hour volume", MaxValue(a.hourly_traffic)>>)
    \o AlertIf(HIGH_VOLUME_MODE /\ RLt(R(max_defer_rate), st.defer_rate),
               <<"High defer rate", st.defer_rate>>)
    \o AlertIf(HIGH_VOLUME_MODE /\ RLt(R(max_avg_size), st.avg_message_size),
               <<"Large average message size", st.avg_message_size>>)
    \o AlertIf(HIGH_VOLUME_MODE /\ RLt(R(100), Throughput(st)),
               <<"High throughput", Throughput(st)>>)

Alerts(st, c, a, tr) ==
    AlertIf(RLt(st.success_rate, R(min_success_rate)),
            <<"Low success rate", st.success_rate>>)
    \o AlertIf(RLt(R(max_queue_time), st.avg_queue_time),
               <<"High queue time", st.avg_queue_time>>)
    \o AlertIf(CounterTotal(c.auth_failures) > max_auth_failures,
               <<"authentication failures", CounterTotal(c.auth_failures)>>)
    \o AlertIf(a.mail_loops # <<>>,
               <<"potential mail loops detected", Len(a.mail_loops)>>)
    \o AlertIf("success_rate" \in DOMAIN tr
                   /\ RLt(tr["success_rate"].percentage, R(-10)),
               <<"Success rate declining", tr["success_rate"].percentage>>)
    \o AlertIf("avg_queue_time" \in DOMAIN tr
                   /\ RLt(R(50), tr["avg_queue_time"].percentage),
               <<"Queue time increasing", tr["avg_queue_time"].percentage>>)
    \o AlertIf(HIGH_VOLUME_MODE /\ MaxValue(a.hourly_traffic) > max_hourly_volume,
               <<"Peak hour volume", MaxValue(a.hourly_traffic)>>)
    \o AlertIf(HIGH_VOLUME_MODE /\ RLt(R(max_defer_rate), st.defer_rate),
               <<"High defer rate", st.defer_rate>>)
    \o AlertIf(HIGH_VOLUME_MODE /\ RLt(R(max_avg_size), st.avg_message_size),
               <<"Large average message size", st.avg_message_size>>)
    \o AlertIf(HIGH_VOLUME_MODE /\ RLt(R(100), Throughput(st)),
               <<"High throughput", Throughput(st)>>)

(***************************************************************************)
(* calculate_trends (lines 231-256).                                       *)
(***************************************************************************)
TrendWindow == 8
RecentDays == 3
TrendMetrics == {"sent_count", "success_rate", "avg_queue_time", "total_size"}

RECURSIVE Sorted(_)
Sorted(S) ==
    IF S = {} THEN <<>>
    ELSE LET m == CHOOSE x \in S : \A y \in S : x <= y
         IN  <<m>> \o Sorted(S \ {m})

LastN(s, n) == IF Len(s) <= n THEN s ELSE SubSeq(s, Len(s) - n + 1, Len(s))
AllButLastN(s, n) == IF Len(s) <= n THEN <<>> ELSE SubSeq(s, 1, Len(s) - n)

Mean(values) == RDiv(RSum(values), R(Len(values)))

TrendDates(history) == LastN(Sorted(DOMAIN history), TrendWindow)

RECURSIVE MetricValues(_, _, _)
MetricValues(history, dates, metric) ==
    IF dates = <<>> THEN <<>>
    ELSE (IF metric \in DOMAIN history[Head(dates)]
          THEN <<history[Head(dates)][metric]>> ELSE <<>>)
         \o MetricValues(history, Tail(dates), metric)

\* Mutant: the recent average is taken over the whole window.
RecentAvgAll(values) == Mean(values)

RecentAvg(values) == Mean(LastN(values, RecentDays))

\* Mutant: the baseline is taken over the whole window.
OlderAvgAll(values) == Mean(values)

OlderAvg(values) ==
    IF Len(values) > RecentDays THEN Mean(AllButLastN(values, RecentDays))
    ELSE values[1]

TrendPct(values) ==
    RMul(RDiv(RSub(RecentAvg(values), OlderAvg(values)), OlderAvg(values)), R(100))

\* Mutant: the thresholds are inclusive.
DirectionInclusive(trend_pct) ==
    IF RLe(R(5), trend_pct) THEN "up"
    ELSE IF RLe(trend_pct, R(-5)) THEN "down"
    ELSE "flat"

Direction(trend_pct) ==
    IF RLt(R(5), trend_pct) THEN "up"
    ELSE IF RLt(trend_pct, R(-5)) THEN "down"
    ELSE "flat"

HasTrend(values) == Len(values) >= 2 /\ RLt(R(0), OlderAvg(values))

calculate_trends(history) ==
    IF Cardinality(DOMAIN history) < 2 THEN EmptyDict
    ELSE LET dates == TrendDates(history)
             vals(metric) == MetricValues(history, dates, metric)
         IN  [metric \in {m \in TrendMetrics : HasTrend(vals(m))} |->
                [direction |-> Direction(TrendPct(vals(metric))),
                 percentage |-> TrendPct(vals(metric)),
                 recent_avg |-> RecentAvg(vals(metric)),
                 baseline_avg |-> OlderAvg(vals(metric))]]

(***************************************************************************)
(* load_historical_data (lines 208-214) and the document                   *)
(* save_historical_data writes (lines 218-227).  The history file is       *)
(* missing, or holds a valid JSON document doc.  Dates are day numbers:    *)
(* the %Y-%m-%d keys compare as strings the way the days compare.          *)
(***************************************************************************)
RetentionDays == 30

\* A history loaded from a file that holds a JSON array and not an object: its
\* indices are 1, 2, ..., where the keys of an object are dates, none of them
\* after the day of the run (day 0).  The empty array is not modelled.
JsonArray(history) == DOMAIN history # {} /\ \A k \in DOMAIN history : k > 0

load_historical_data(file) ==
    IF file.state = "valid" THEN file.doc ELSE EmptyDict

\* Mutant: nothing is cut.
SavedHistoryNoCut(history, stats_today, now) == Put(history, now, stats_today)

SavedHistory(history, stats_today, now) ==
    LET h == Put(history, now, stats_today)
        cutoff_date == now - RetentionDays
    IN  [k \in {d \in DOMAIN h : d >= cutoff_date} |-> h[k]]


(***************************************************************************)
(* The actions of one invocation of main().                                *)
(***************************************************************************)
\* Mutant: the counters are process-wide and survive from the invocation before.
LoadHistoryKeepCounters ==
    /\ pc = "start"
    /\ today_date' = 0
    /\ historical_data' = load_historical_data(history_file)
    /\ stats' = NoStats
    /\ trends' = EmptyDict
    /\ today_stats' = EmptyDict
    /\ alerts' = <<>>
    /\ raised' = NotRaised
    /\ idx' = 0
    /\ pc' = "pass1"
    /\ UNCHANGED <<files, history_file, run, reported, issued, ctx, agg, env, queue>>

\* Lines 328-373: the dates, the loaded history and the empty counters.  An
\* open() of the history file that fails with an error other than
\* FileNotFoundError is not caught at line 213.
LoadHistory ==
    /\ pc = "start"
    /\ today_date' = 0
    /\ ctx' = NewCtx
    /\ agg' = NewAgg
    /\ stats' = NoStats
    /\ trends' = EmptyDict
    /\ today_stats' = EmptyDict
    /\ alerts' = <<>>
    /\ idx' = 0
    /\ IF history_file.state = "unreadable"
       THEN /\ historical_data' = EmptyDict
            /\ raised' = <<"PermissionError", 211>>
            /\ pc' = "crashed"
       ELSE /\ historical_data' = load_historical_data(history_file)
            /\ raised' = NotRaised
            /\ pc' = "pass1"
    /\ UNCHANGED <<files, history_file, run, reported, issued, env, queue>>

\* Mutant: the second pass starts once the first file has been read.
Pass1CompleteFirstFile(i, fs, today) == i >= Len(FileLines(fs, 1, today))

\* The first pass has read every line of every configured file.
Pass1Complete(i, fs, today) == i = Len(PassLines(fs, today))

\* Lines 376-406: the next line of the first pass.
FirstPass ==
    /\ pc = "pass1"
    /\ idx < Len(LinesRead(files, today_date, env))
    /\ ctx' = Pass1Line(ctx, PassLines(files, today_date)[idx + 1])
    /\ idx' = idx + 1
    /\ UNCHANGED <<files, history_file, run, pc, today_date, historical_data,
                   agg, stats, trends, today_stats, reported, issued, alerts, raised,
                   env, queue>>

\* Lines 185-187 under line 378: the open() of the next file fails with an
\* error other than FileNotFoundError, which nothing catches.
SourceReadError ==
    /\ pc = "pass1"
    /\ env.log_errors # {}
    /\ idx = Len(LinesRead(files, today_date, env))
    /\ raised' = <<"OSError", 187>>
    /\ pc' = "crashed"
    /\ UNCHANGED <<files, history_file, run, idx, today_date, historical_data,
                   ctx, agg, stats, trends, today_stats, reported, issued, alerts, env,
                   queue>>

\* Line 415: the second pass starts when the loops of the first have ended.
StartSecondPass ==
    /\ pc = "pass1"
    /\ env.log_errors = {}
    /\ Pass1Complete(idx, files, today_date)
    /\ pc' = "pass2"
    /\ idx' = 0
    /\ UNCHANGED <<files, history_file, run, today_date, historical_data, ctx,
                   agg, stats, trends, today_stats, reported, issued, alerts, raised,
                   env, queue>>

\* Mutant: the host lookup of line 426 records the id it does not find.
SecondPassRecordsHost ==
    /\ pc = "pass2"
    /\ idx < Len(PassLines(files, today_date))
    /\ agg' = Pass2Line(agg, ctx, PassLines(files, today_date)[idx + 1])
    /\ ctx' = LET line == PassLines(files, today_date)[idx + 1]
              IN  IF line.smtp_id # None /\ line.smtp_id \notin DOMAIN ctx.message_clients
                  THEN [ctx EXCEPT !.message_clients = Put(@, line.smtp_id, "unknown")]
                  ELSE ctx
    /\ idx' = idx + 1
    /\ UNCHANGED <<files, history_file, run, pc, today_date, historical_data,
                   stats, trends, today_stats, reported, issued, alerts, raised, env,
                   queue>>

\* Lines 415-552: the next line of the second pass.
SecondPass ==
    /\ pc = "pass2"
    /\ idx < Len(PassLines(files, today_date))
    /\ agg' = Pass2Line(agg, ctx, PassLines(files, today_date)[idx + 1])
    /\ idx' = idx + 1
    /\ UNCHANGED <<files, history_file, run, pc, today_date, historical_data,
                   ctx, stats, trends, today_stats, reported, issued, alerts, raised,
                   env, queue>>

\* A division of lines 555-568 raised ZeroDivisionError.
Raised(st) ==
    DivError \in {st.avg_queue_time, st.success_rate, st.avg_message_size,
                  st.defer_rate}

\* Lines 554-559 and 567-568, when the loops of the second pass have ended.
ComputeMetrics ==
    /\ pc = "pass2"
    /\ idx = Len(PassLines(files, today_date))
    /\ IF Raised(Metrics(agg))
       THEN /\ stats' = stats
            /\ raised' = <<"ZeroDivisionError", 559>>
            /\ pc' = "crashed"
       ELSE /\ stats' = Metrics(agg)
            /\ raised' = raised
            /\ pc' = "trends"
    /\ UNCHANGED <<files, history_file, run, idx, today_date, historical_data,
                   ctx, agg, trends, today_stats, reported, issued, alerts, env,
                   queue>>

\* Line 562.  A history that is a JSON array of two or more elements has no
\* keys() at line 236.
ComputeTrends ==
    /\ pc = "trends"
    /\ IF JsonArray(historical_data) /\ Len(historical_data) >= 2
       THEN /\ trends' = trends
            /\ raised' = <<"AttributeError", 236>>
            /\ pc' = "crashed"
       ELSE /\ trends' = IF JsonArray(historical_data) THEN EmptyDict
                         ELSE calculate_trends(historical_data)
            /\ raised' = raised
            /\ pc' = "health"
    /\ UNCHANGED <<files, history_file, run, idx, today_date, historical_data,
                   ctx, agg, stats, today_stats, reported, issued, alerts, env,
                   queue>>

\* Lines 575-581, 583-609 and 616-627.
ComputeHealth ==
    /\ pc = "health"
    /\ stats' = [stats EXCEPT !.health_score = HealthScore(stats, ctx, agg)]
    /\ alerts' = Alerts(stats, ctx, agg, trends)
    /\ today_stats' = TodayStats(stats', ctx, agg)
    /\ issued' = Append(issued, [trends |-> trends, alerts |-> alerts'])
    /\ pc' = "save"
    /\ UNCHANGED <<files, history_file, run, idx, today_date, historical_data,
                   ctx, agg, trends, reported, raised, env,
                   queue>>

\* Line 630: save_historical_data(historical_data, today_stats).  Line 219
\* adds today's entry to main()'s own dictionary (a JSON array takes no string
\* index); the file is written at lines 225-227, where only PermissionError is
\* caught.
SaveHistory ==
    /\ pc = "save"
    /\ IF JsonArray(historical_data)
       THEN /\ raised' = <<"TypeError", 219>>
            /\ pc' = "crashed"
            /\ UNCHANGED <<historical_data, history_file, reported>>
       ELSE /\ historical_data' = Put(historical_data, today_date, today_stats)
            /\ reported' = Append(reported, today_stats)
            /\ history_file' =
                   IF env.history_write = "ok"
                   THEN [state |-> "valid",
                         doc |-> SavedHistory(historical_data, today_stats,
                                              today_date)]
                   ELSE history_file
            /\ IF env.history_write = "error"
               THEN raised' = <<"OSError", 226>> /\ pc' = "crashed"
               ELSE raised' = raised /\ pc' = "report"
    /\ UNCHANGED <<files, run, idx, today_date, ctx, agg, stats, trends,
                   today_stats, issued, alerts, env,
                   queue>>

\* Lines 632-1338: the report is built.  Line 758 divides by min_hourly when
\* total_messages > 100; line 952 calls most_common on retry_patterns, which
\* is a defaultdict (line 362) and has no such method.
ReportRaises(st, a) ==
    IF st.total_messages > 100 /\ MinValue(a.hourly_traffic) = 0
    THEN <<"ZeroDivisionError", 758>>
    ELSE IF a.retry_patterns # EmptyDict
    THEN <<"AttributeError", 952>>
    ELSE NotRaised

BuildReport ==
    /\ pc = "report"
    /\ raised' = ReportRaises(stats, agg)
    /\ pc' = IF ReportRaises(stats, agg) = NotRaised THEN "send" ELSE "crashed"
    /\ UNCHANGED <<files, history_file, run, idx, today_date, historical_data,
                   ctx, agg, stats, trends, today_stats, reported, issued,
                   alerts, env,
                   queue>>

\* Lines 1340-1346: the report is handed to the SMTP server; a failure of the
\* send is caught and printed.
SendReport ==
    /\ pc = "send"
    /\ pc' = "done"
    /\ UNCHANGED <<files, history_file, run, idx, today_date, historical_data,
                   ctx, agg, stats, trends, today_stats, reported, issued, alerts,
                   raised, env,
                   queue>>

\* The program is invoked again, over the same log files.
NextRun ==
    /\ pc \in {"done", "crashed"}
    /\ run < MaxRuns
    /\ run' = run + 1
    /\ pc' = "start"
    /\ UNCHANGED <<files, history_file, idx, today_date, historical_data, ctx,
                   agg, stats, trends, today_stats, reported, issued, alerts, raised,
                   env, queue>>

(***************************************************************************)
(* Snapshots of earlier days, as a run of that day wrote them.             *)
(***************************************************************************)
DayStats(sent, deferred, delays, size) ==
    LET a == [NewAgg EXCEPT !.sent_count = sent, !.deferred_count = deferred,
                            !.queue_times = delays, !.total_size = size]
        st == [Metrics(a) EXCEPT
                 !.health_score = HealthScore(Metrics(a), NewCtx, a)]
    IN  TodayStats(st, NewCtx, a)

\* The history documents with one snapshot of S on each of the k last days, k <= n.
HistoryDocs(S, n) ==
    UNION {{[d \in {-i : i \in 1..k} |-> f[-d]] : f \in [1..k -> S]} : k \in 0..n}

HistoryFiles(S, n) ==
    {[state |-> "missing", doc |-> EmptyDict]}
    \cup {[state |-> "valid", doc |-> h] : h \in HistoryDocs(S, n)}

(***************************************************************************)
(* The state of main() before its first line, and the two passes as folds  *)
(* of their iterations.                                                    *)
(***************************************************************************)
InitRun ==
    /\ run = 1
    /\ pc = "start"
    /\ idx = 0
    /\ today_date = 0
    /\ historical_data = EmptyDict
    /\ ctx = NewCtx
    /\ agg = NewAgg
    /\ stats = NoStats
    /\ trends = EmptyDict
    /\ today_stats = EmptyDict
    /\ reported = <<>>
    /\ issued = <<>>
    /\ alerts = <<>>
    /\ raised = NotRaised

\* TLC computes an argument when it is first used: Computed(x) uses it, so
\* that the state after the lines read so far exists before the next line is
\* read, as in the for loops of main().
Computed(x) == x = x

RECURSIVE FoldPass1(_, _)
FoldPass1(c, lines) ==
    IF Computed(c) /\ lines = <<>> THEN c
    ELSE IF Len(lines) = 1 THEN Pass1Line(c, lines[1])
    ELSE LET h == Len(lines) \div 2
         IN  FoldPass1(FoldPass1(c, SubSeq(lines, 1, h)),
                       SubSeq(lines, h + 1, Len(lines)))

RECURSIVE FoldPass2(_, _, _)
FoldPass2(a, c, lines) ==
    IF Computed(a) /\ lines = <<>> THEN a
    ELSE IF Len(lines) = 1 THEN Pass2Line(a, c, lines[1])
    ELSE LET h == Len(lines) \div 2
         IN  FoldPass2(FoldPass2(a, c, SubSeq(lines, 1, h)), c,
                       SubSeq(lines, h + 1, Len(lines)))

RunPass1(fs, today) == FoldPass1(NewCtx, PassLines(fs, today))
RunPass2(fs, today) == FoldPass2(NewAgg, RunPass1(fs, today), PassLines(fs, today))

(***************************************************************************)
(* Spec: one invocation over the correlation lines, no history file.       *)
(***************************************************************************)
CoreLines ==
    {LClient, LPickup, LQmgr, LQmgrSmall, LSent, LDeferred, LOldClient}

Init ==
    /\ files \in LogSets(CoreLines, MaxLines)
    /\ history_file = [state |-> "missing", doc |-> EmptyDict]
    /\ env = NoFaults
    /\ queue = QueueIdle
    /\ InitRun

Next ==
    \/ LoadHistory
    \/ FirstPass
    \/ StartSecondPass
    \/ SecondPass
    \/ ComputeMetrics
    \/ ComputeTrends
    \/ ComputeHealth
    \/ SaveHistory
    \/ BuildReport
    \/ SendReport

Spec == Init /\ [][Next]_vars

(***************************************************************************)
(* ClassSpec: one invocation over the status lines.                        *)
(***************************************************************************)
ClassLines == {LClient, LSent, LDeferred, LBounced, LMulti, LOld}

ClassInit ==
    /\ files \in LogSets(ClassLines, MaxLines)
    /\ history_file = [state |-> "missing", doc |-> EmptyDict]
    /\ env = NoFaults
    /\ queue = QueueIdle
    /\ InitRun

ClassSpec == ClassInit /\ [][Next]_vars

(***************************************************************************)
(* RerunSpec: the program is invoked again and again over the same log     *)
(* files, each invocation reading the history file the one before wrote.   *)
(***************************************************************************)
RerunLines == {LQmgr, LSent, LDeferred, LAuth, LLoop}

RerunSnaps == {DayStats(1, 0, <<120>>, 2048), DayStats(2, 2, <<>>, 0)}

RerunInit ==
    /\ files \in LogSets(RerunLines, MaxRerunLines)
    /\ history_file \in HistoryFiles(RerunSnaps, MaxHist)
    /\ env = NoFaults
    /\ queue = QueueIdle
    /\ InitRun

RerunNext == Next \/ NextRun

RerunSpec == RerunInit /\ [][RerunNext]_vars


(***************************************************************************)
(* TrendSpec: the end of one invocation, from the last line of its second  *)
(* pass on, over a log of n sent lines and a history of earlier days.      *)
(***************************************************************************)
S100 == DayStats(100, 0, <<100>>, 1000)
S110 == DayStats(110, 0, <<100>>, 900)
S112 == DayStats(112, 28, <<100>>, 0)
SZero == DayStats(0, 0, <<>>, 0)
\* A snapshot that lacks a metric.
SPartial == [m \in (DOMAIN S100) \ {"avg_queue_time"} |-> S100[m]]

TrendSnaps == {S100, S110, S112, SZero, SPartial}

\* sent_count 100 on the four oldest of seven days, 300 on the three newest.
ScenarioD ==
    [d \in -7..-1 |-> DayStats(IF d <= -4 THEN 100 ELSE 300, 0, <<>>, 0)]

\* Ten days: only the eight newest are in the trend window.
TenDays == [d \in -10..-1 |-> IF d <= -9 THEN S112 ELSE S100]

\* A log of n sent lines of today.
SentLog(n) == <<[i \in 1..n |-> LSent], <<>>>>

\* Short logs over every history, the log of 300 sent lines over the two
\* long histories.
TrendInputs ==
    ({SentLog(0), SentLog(1)} \X HistoryFiles(TrendSnaps, MaxTrendHist))
    \cup ({SentLog(1), SentLog(300)}
          \X {[state |-> "valid", doc |-> h] : h \in {ScenarioD, TenDays}})

TrendInit ==
    /\ \E input \in TrendInputs :
           /\ files = input[1]
           /\ history_file = input[2]
    /\ env = NoFaults
    /\ queue = QueueIdle
    /\ run = 1
    /\ pc = "pass2"
    /\ today_date = 0
    /\ historical_data = load_historical_data(history_file)
    /\ ctx = RunPass1(files, 0)
    /\ agg = RunPass2(files, 0)
    /\ idx = Len(PassLines(files, 0))
    /\ stats = NoStats
    /\ trends = EmptyDict
    /\ today_stats = EmptyDict
    /\ reported = <<>>
    /\ issued = <<>>
    /\ alerts = <<>>
    /\ raised = NotRaised

TrendNext ==
    \/ ComputeMetrics
    \/ ComputeTrends
    \/ ComputeHealth
    \/ SaveHistory
    \/ BuildReport
    \/ SendReport

TrendSpec == TrendInit /\ [][TrendNext]_vars

(***************************************************************************)
(* FaultSpec: invocations on the same day or on the day after, over log    *)
(* sources that may be none or may fail to open, and a history file that   *)
(* may be missing, unreadable, malformed, a JSON array, or hold old dates, *)
(* and may fail to be written.                                             *)
(***************************************************************************)
\* 2026-11-03T09:00:00 mx postfix/smtp[4]: B2: from=<a@eusd.org>, to=<c@z.org>,
\*   delay=40, status=deferred (Connection timed out)
LRetry == [LDeferred EXCEPT !.day = 0, !.from = <<"a", "eusd.org">>]

FaultLines == {LClient, LRetry}

\* LOG_PATHS empty, or the two files.
FaultLogs == {<<>>} \cup LogSets(FaultLines, MaxFaultLines)

PruneDates == {-31, -30, -29, -1}

FaultHistories ==
    {[state |-> st, doc |-> EmptyDict] : st \in {"missing", "malformed", "unreadable"}}
    \cup {[state |-> "valid", doc |-> h] : h \in {<<1>>, <<1, 2>>}}
    \cup {[state |-> "valid", doc |-> [d \in D |-> DayStats(1, 0, <<120>>, 2048)]] :
            D \in SUBSET PruneDates}

\* At most one open() fails.
FaultEnvs(fs) ==
    {NoFaults}
    \cup {[NoFaults EXCEPT !.log_errors = {f}] : f \in 1..Len(fs)}
    \cup {[NoFaults EXCEPT !.history_write = w] : w \in {"denied", "error"}}

FaultInit ==
    /\ files \in FaultLogs
    /\ history_file \in FaultHistories
    /\ env \in FaultEnvs(files)
    /\ queue = QueueIdle
    /\ InitRun

\* A day passes before the program is invoked again: every date is one day
\* further in the past of the next invocation.
DayLater(fs) ==
    [f \in DOMAIN fs |-> [i \in DOMAIN fs[f] |-> [fs[f][i] EXCEPT !.day = @ - 1]]]

HistoryDayLater(file) ==
    IF file.state = "valid" /\ ~JsonArray(file.doc)
    THEN [file EXCEPT !.doc = [d \in {k - 1 : k \in DOMAIN file.doc} |-> file.doc[d + 1]]]
    ELSE file

NextDay ==
    /\ pc \in {"done", "crashed"}
    /\ run < MaxRuns
    /\ run' = run + 1
    /\ pc' = "start"
    /\ files' = DayLater(files)
    /\ history_file' = HistoryDayLater(history_file)
    /\ UNCHANGED <<idx, today_date, historical_data, ctx, agg, stats, trends,
                   today_stats, reported, issued, alerts, raised, env,
                   queue>>

FaultNext == RerunNext \/ SourceReadError \/ NextDay

FaultSpec == FaultInit /\ [][FaultNext]_vars

(***************************************************************************)
(* StatusSpec: one invocation over one log file of sent lines that are or  *)
(* are not mail loops, and of deferred lines with their reasons.           *)
(***************************************************************************)
\* x@y.org to itself, delay=0.05
LSelf == [LLoop EXCEPT !.from = <<"x", "y.org">>, !.to = <<"x", "y.org">>]
\* a@eusd.org to b@eusd.org, delay=0.1
LEdge == [LLoop EXCEPT !.delay = 10]
\* a@y.org to b@y.org, delay=0.05
LOutside == [LLoop EXCEPT !.from = <<"a", "y.org">>, !.to = <<"b", "y.org">>]
\* a@eusd.org to c@z.org, delay=0.05
LLeaving == [LLoop EXCEPT !.to = <<"c", "z.org">>]
\* no from=<...>, to b@eusd.org, delay=0.05
LNoSender == [LLoop EXCEPT !.from = NoAddr]
\* a@eusd.org to b@eusd.org, no delay=
LNoDelay == [LLoop EXCEPT !.delay = -1]

LoopLines == {LLoop, LSelf, LEdge, LOutside, LLeaving, LNoSender, LNoDelay}

\* status=deferred (... Connection refused ... Connection timed out)
LDefRefused ==
    [LDeferred EXCEPT !.marks = {"Connection refused", "Connection timed out"}]
\* status=deferred (... Temporary lookup failure)
LDefDns == [LDeferred EXCEPT !.marks = {"Temporary lookup failure"}]
\* status=deferred (... Temporary failure ... Greylisted)
LDefTempGrey == [LDeferred EXCEPT !.marks = {"Temporary failure", "Greylisted"}]
\* status=deferred (... Greylisted, try again later)
LDefGrey == [LDeferred EXCEPT !.marks = {"Greylisted"}]
\* status=deferred (host said: 451 try again)
LDefOther == [LDeferred EXCEPT !.marks = {}]
\* status=deferred (... Connection refused)
LDefOnlyRefused == [LDeferred EXCEPT !.marks = {"Connection refused"}]

DeferredLines ==
    {LDeferred, LDefRefused, LDefDns, LDefTempGrey, LDefGrey, LDefOther,
     LDefOnlyRefused}

StatusInit ==
    /\ files \in {<<log, <<>>>> : log \in SeqsUpTo(LoopLines \cup DeferredLines,
                                                   MaxStatusLines)}
    /\ history_file = [state |-> "missing", doc |-> EmptyDict]
    /\ env = NoFaults
    /\ queue = QueueIdle
    /\ InitRun

StatusSpec == StatusInit /\ [][Next]_vars

(***************************************************************************)
(* HealthSpec: the steps after the passes, over logs with up to seven      *)
(* users failing authentication, up to MaxHealthLoops mail loops, fast and *)
(* slow deliveries and deferred lines.                                     *)
(***************************************************************************)
HealthUsers == <<"u1", "u2", "u3", "u4", "u5", "u6", "u7">>

\* n distinct users failing authentication, the first one again times more.
AuthLog(n, again) ==
    [i \in 1..(n + again) |->
        [LAuth EXCEPT !.auth_user = HealthUsers[IF i <= n THEN i ELSE 1]]]

AuthLogs ==
    {AuthLog(n, 0) : n \in {0, 1, 5, 6, 7}} \cup {AuthLog(1, 1), AuthLog(6, 2)}

LoopLog(n) == [i \in 1..n |-> LLoop]

\* delay=30, delay=40, delay=60
LQueue30 == [LSent EXCEPT !.delay = 3000]
LQueue40 == [LSent EXCEPT !.delay = 4000]
LQueue60 == [LSent EXCEPT !.delay = 6000]

SentLogs ==
    {<<>>, <<LSent>>, <<LQueue30>>, <<LQueue40>>, <<LQueue60>>,
     [i \in 1..9 |-> LSent], [i \in 1..19 |-> LSent], [i \in 1..19 |-> LQueue40]}

DeferredLogs == {<<>>, <<LRetry>>}

\* n lines of today, deferred and bounced in turn.
ErrorLog(n) == [i \in 1..n |-> IF i % 2 = 1 THEN LRetry ELSE LBounced]

HealthLogs ==
    {<<au \o LoopLog(n) \o se \o de, <<>>>> :
        au \in AuthLogs, n \in {0, 1, 3, MaxHealthLoops},
        se \in SentLogs, de \in DeferredLogs \cup {ErrorLog(MaxErrorLines)}}

\* 2026-11-03 10:00:02 mx postfix/smtp[4]: A1: to=<b@y.org>, ..., status=sent:
\* the date is not followed by T and the hour.
LSentNoHour == [LSent EXCEPT !.hour = -1]

\* More than 100 messages: deferred and bounced only, sent without an hour,
\* and sent within one hour.
VolumeLogs ==
    {<<ErrorLog(MaxVolumeLines), <<>>>>,
     <<[i \in 1..MaxVolumeLines |-> LSentNoHour], <<>>>>,
     <<[i \in 1..MaxVolumeLines |-> LSent], <<>>>>,
     <<[i \in 1..(MaxVolumeLines - 1) |-> LDeferred], <<>>>>}

HealthInit ==
    /\ files \in HealthLogs \cup VolumeLogs
    /\ history_file = [state |-> "missing", doc |-> EmptyDict]
    /\ env = NoFaults
    /\ queue = QueueIdle
    /\ run = 1
    /\ pc = "pass2"
    /\ today_date = 0
    /\ historical_data = load_historical_data(history_file)
    /\ ctx = RunPass1(files, 0)
    /\ agg = RunPass2(files, 0)
    /\ idx = Len(PassLines(files, 0))
    /\ stats = NoStats
    /\ trends = EmptyDict
    /\ today_stats = EmptyDict
    /\ reported = <<>>
    /\ issued = <<>>
    /\ alerts = <<>>
    /\ raised = NotRaised

HealthSpec == HealthInit /\ [][TrendNext]_vars

(***************************************************************************)
(* AlertSpec: the steps after the passes, over logs and histories on both  *)
(* sides of every alert threshold.                                         *)
(***************************************************************************)
\* A1: from=<a@x.org>, size=10485760 and size=10485761
LQmgrMax == [LQmgr EXCEPT !.size = max_avg_size]
LQmgrHuge == [LQmgr EXCEPT !.size = max_avg_size + 1]
\* A1: to=<b@y.org>, status=sent, without delay=
LSentNoDelay == [LSent EXCEPT !.delay = -1]

AlertAuthLogs ==
    {AuthLog(0, 0), AuthLog(7, 0), AuthLog(1, max_auth_failures - 1),
     AuthLog(1, max_auth_failures)}

AlertSentLogs ==
    {<<>>, <<LSent>>, <<LQueue30>>, <<LQueue40>>, [i \in 1..19 |-> LSent]}

ShortAlertLogs ==
    {<<au \o LoopLog(n) \o qm \o se \o de, <<>>>> :
        au \in AlertAuthLogs, n \in {0, 1},
        qm \in {<<>>, <<LQmgrMax>>, <<LQmgrHuge>>},
        se \in AlertSentLogs, de \in DeferredLogs}

\* max_hourly_volume and max_hourly_volume + 1 deliveries within one hour.
PeakAlertLogs ==
    {<<au \o LoopLog(n) \o [i \in 1..k |-> LSent], <<>>>> :
        au \in {AuthLog(0, 0), AuthLog(1, max_auth_failures)}, n \in {0, 1},
        k \in {max_hourly_volume, max_hourly_volume + 1}}

\* 100 messages per minute of the day, and one message more.
LongAlertLogs ==
    {<<[i \in 1..k |-> LSentNoDelay], <<>>>> : k \in {MaxAlertLines - 1, MaxAlertLines}}

\* Two days of history: success_rate 100 then 70, 80 or 100, avg_queue_time
\* 10 s then 10, 20 or 30 s.
AlertHistories ==
    {[state |-> "missing", doc |-> EmptyDict]}
    \cup {[state |-> "valid",
           doc |-> [d \in {-2, -1} |->
                      IF d = -2 THEN DayStats(10, 0, <<1000>>, 0) ELSE snap]] :
          snap \in {DayStats(7, 3, <<3000>>, 0), DayStats(8, 2, <<2000>>, 0),
                    DayStats(7, 3, <<1000>>, 0), DayStats(10, 0, <<3000>>, 0)}}

AlertInputs ==
    (ShortAlertLogs \X AlertHistories)
    \cup (PeakAlertLogs \X {h \in AlertHistories : h.state = "missing"})
    \cup (LongAlertLogs \X {h \in AlertHistories : h.state = "missing"})

AlertInit ==
    /\ \E input \in AlertInputs :
           /\ files = input[1]
           /\ history_file = input[2]
    /\ env = NoFaults
    /\ queue = QueueIdle
    /\ run = 1
    /\ pc = "pass2"
    /\ today_date = 0
    /\ historical_data = load_historical_data(history_file)
    /\ ctx = RunPass1(files, 0)
    /\ agg = RunPass2(files, 0)
    /\ idx = Len(PassLines(files, 0))
    /\ stats = NoStats
    /\ trends = EmptyDict
    /\ today_stats = EmptyDict
    /\ reported = <<>>
    /\ issued = <<>>
    /\ alerts = <<>>
    /\ raised = NotRaised

AlertSpec == AlertInit /\ [][TrendNext]_vars

(***************************************************************************)
(* SizeSpec: one invocation over qmgr lines with sizes on both sides of    *)
(* every bucket limit, and sent lines with and without a size= of their    *)
(* own.                                                                    *)
(***************************************************************************)
BucketLimits == {1024, 10240, 102400, 1048576}

\* A1: from=<a@x.org>, size=n, nrcpt=1
SizeLines ==
    {[LQmgr EXCEPT !.size = n] : n \in {0} \cup BucketLimits \cup {n - 1 : n \in BucketLimits}}

\* D4: to=<b@y.org>, relay=r[1.2.3.4]:25, delay=1.2, size=500, status=sent
LSentInline == [LSent EXCEPT !.smtp_id = "D4", !.inline_size = 500]
\* A1: to=<b@y.org>, relay=r[1.2.3.4]:25, delay=1.2, size=500, status=sent
LSentBoth == [LSent EXCEPT !.inline_size = 500]

SizeInit ==
    /\ files \in {<<log, <<>>>> :
                    log \in SeqsUpTo(SizeLines \cup {LSent, LSentInline, LSentBoth, LRetry},
                                     MaxSizeLines)}
    /\ history_file = [state |-> "missing", doc |-> EmptyDict]
    /\ env = NoFaults
    /\ queue = QueueIdle
    /\ InitRun

SizeSpec == SizeInit /\ [][Next]_vars

(***************************************************************************)
(* QueueSpec: one invocation of postfix_queue_alert.py over a mailq that   *)
(* fails or prints up to MaxQueueLines lines.                              *)
(***************************************************************************)
QueueInit ==
    /\ queue \in {[QueueIdle EXCEPT !.pc = "start", !.mailq = m] :
                    m \in {[ok |-> FALSE, output |-> <<>>]}
                          \cup {[ok |-> TRUE, output |-> o] :
                                  o \in SeqsUpTo(QueueLines, MaxQueueLines)}}
    /\ files = <<<<>>, <<>>>>
    /\ history_file = [state |-> "missing", doc |-> EmptyDict]
    /\ env = NoFaults
    /\ InitRun

QueueNext == GetQueueCounts \/ CheckThreshold

QueueSpec == QueueInit /\ [][QueueNext]_vars

(***************************************************************************)
(* What the claims speak of.                                               *)
(***************************************************************************)
\* The lines a pass reads, in the order it reads them.
Input == PassLines(files, today_date)

\* The line the second pass has just processed.
Current == Input[idx]

Classified(line) == line.st_sent \/ line.st_deferred \/ line.st_bounced

\* The line is a client or pickup line of transaction id.
RecordsHost(line, id) == id # None /\ (line.client_id = id \/ line.pickup_id = id)

\* The host the last client or pickup line of id in the input names.
RecordedHost(id) ==
    LET S == {i \in 1..Len(Input) : RecordsHost(Input[i], id)}
        last == CHOOSE i \in S : \A j \in S : j <= i
    IN  IF Input[last].pickup_id = id THEN "localhost"
        ELSE Input[last].client_host

AfterMetrics == pc \in {"trends", "health", "save", "report", "send", "done"}

C2_OneStatusPerLine ==
    [][(pc = "pass2" /\ idx' = idx + 1) =>
         LET ds == agg'.sent_count - agg.sent_count
             dd == agg'.deferred_count - agg.deferred_count
             db == agg'.bounced_count - agg.bounced_count
         IN  /\ {ds, dd, db} \subseteq {0, 1}
             /\ ds + dd + db <= 1
             /\ (ds + dd + db = 1) <=> Classified(Input[idx + 1])]_vars

\* A line with all three markers has been counted as sent only.
C2_Witness ==
    /\ pc = "pass2"
    /\ idx = 1
    /\ Current.st_sent /\ Current.st_deferred /\ Current.st_bounced
    /\ agg.sent_count = 1
    /\ agg.deferred_count = 0
    /\ agg.bounced_count = 0

(***************************************************************************)
(* C3.  Once the metrics are computed, total_messages is the sum of the    *)
(* three counters and the number of lines of the input that carry a status *)
(* marker, and success_rate lies in [0, 100].                              *)
(***************************************************************************)
C3_TotalsAndRate ==
    AfterMetrics =>
        /\ agg.sent_count + agg.deferred_count + agg.bounced_count
               = stats.total_messages
        /\ stats.total_messages
               = Cardinality({i \in 1..Len(Input) : Classified(Input[i])})
        /\ RLe(R(0), stats.success_rate)
        /\ RLe(stats.success_rate, R(100))

\* One sent, one deferred and one bounced line: success_rate is 100/3.
C3_Witness ==
    /\ pc = "trends"
    /\ agg.sent_count = 1
    /\ agg.deferred_count = 1
    /\ agg.bounced_count = 1
    /\ stats.success_rate = <<100, 3>>

(***************************************************************************)
(* C4.  When no line was classified, computing the metrics raises no       *)
(* division error and success_rate, defer_rate, avg_queue_time and         *)
(* avg_message_size are all 0.                                             *)
(***************************************************************************)
C4_ZeroTotals ==
    (pc \notin {"start", "pass1", "pass2"}
     /\ agg.sent_count + agg.deferred_count + agg.bounced_count = 0)
    => /\ pc # "crashed"
       /\ stats.total_messages = 0
       /\ stats.success_rate = R(0)
       /\ stats.defer_rate = R(0)
       /\ stats.avg_queue_time = R(0)
       /\ stats.avg_message_size = R(0)

\* Lines were read, none carried a status marker, and the metrics are computed.
C4_Witness ==
    /\ pc = "trends"
    /\ Len(Input) > 0
    /\ stats.total_messages = 0
    /\ stats.success_rate = R(0)


(***************************************************************************)
(* C5.  Every invocation over the same, unchanged log files reports the    *)
(* same snapshot (the nine entries of today_stats), and an invocation      *)
(* starts its first pass from empty tables whatever the one before left.   *)
(***************************************************************************)
C5_Idempotent ==
    /\ \A i, j \in 1..Len(reported) : reported[i] = reported[j]
    /\ (pc = "pass1" /\ idx = 0) => (ctx = NewCtx /\ agg = NewAgg)

\* Two invocations have reported, over a log with a sent line and an
\* authentication failure.
C5_Witness ==
    /\ Len(reported) = 2
    /\ reported[2] = reported[1]
    /\ reported[2]["sent_count"] = R(1)
    /\ reported[2]["auth_failures_count"] = R(1)

(***************************************************************************)
(* C6.  The first pass over any rearrangement of the client, pickup and    *)
(* size lines among the places they hold in the files leaves the second    *)
(* pass with the same outputs: the hosts attributed to recipients,         *)
(* total_size, the size buckets and the status counts.                     *)
(***************************************************************************)
CorrelationLine(line) ==
    line.client_id # None \/ line.pickup_id # None \/ line.size_id # None

Places(fs) ==
    {p \in (1..2) \X (1..(Len(fs[1]) + Len(fs[2]))) :
        p[2] <= Len(fs[p[1]]) /\ CorrelationLine(fs[p[1]][p[2]])}

Bijections(P) == {g \in [P -> P] : \A a, b \in P : a # b => g[a] # g[b]}

Rearranged(fs, g) ==
    [f \in 1..2 |->
       [i \in 1..Len(fs[f]) |->
          IF <<f, i>> \in DOMAIN g THEN fs[g[<<f, i>>][1]][g[<<f, i>>][2]]
          ELSE fs[f][i]]]

Outputs(a) ==
    [recipient_hosts |-> a.recipient_hosts, total_size |-> a.total_size,
     size_distribution |-> a.size_distribution, sent_count |-> a.sent_count,
     deferred_count |-> a.deferred_count, bounced_count |-> a.bounced_count]

OrderIndependent ==
    \A g \in Bijections(Places(files)) :
        Outputs(FoldPass2(NewAgg, RunPass1(Rearranged(files, g), today_date), Input))
            = Outputs(agg)

\* The claim as stated: for every set of input lines.
C6_AnyInput == pc = "trends" => OrderIndependent

\* No transaction id is recorded with two hosts or with two sizes.
HostsOf(id) ==
    {"localhost" : i \in {j \in 1..Len(Input) : Input[j].pickup_id = id}}
    \cup {Input[i].client_host : i \in {j \in 1..Len(Input) : Input[j].client_id = id}}

SizesOf(id) ==
    {Input[i].size : i \in {j \in 1..Len(Input) : Input[j].size_id = id}}

Unambiguous ==
    \A id \in {"A1", "B2", "C3"} :
        Cardinality(HostsOf(id)) <= 1 /\ Cardinality(SizesOf(id)) <= 1

\* As amended: for every input that records each id with one host and one size.
C6_UnambiguousInput == (pc = "trends" /\ Unambiguous) => OrderIndependent

\* A client line and a size line that can change places, and a sent line
\* that uses both.
C6_Witness ==
    /\ pc = "trends"
    /\ Unambiguous
    /\ files[1] = <<LClient, LQmgr, LSent>>
    /\ agg.total_size = 2048
    /\ <<LSent.to, "host1">> \in DOMAIN agg.recipient_hosts


(***************************************************************************)
(* C7.  The trends of a run are those of the history with today's snapshot *)
(* appended: today's date is among the dates the trends are computed       *)
(* from, and trends are produced once the window with today in it holds    *)
(* two dates.  (At pc = save historical_data is still the history the      *)
(* trends were computed from, and today_stats is today's snapshot.)        *)
(***************************************************************************)
C7_TrendsIncludeToday ==
    pc = "save" =>
        trends = calculate_trends(Put(historical_data, today_date, today_stats))


(***************************************************************************)
(* The trends of a run: between ComputeTrends and SaveHistory,             *)
(* historical_data is the history calculate_trends was given.              *)
(***************************************************************************)
TrendsComputed == pc \in {"health", "save"}

\* The values of a metric in the trend window, oldest first.
WindowValues(metric) ==
    LET D == DOMAIN historical_data
        W == {d \in D : Cardinality({e \in D : e > d}) < 8}
        dates == Sorted({d \in W : metric \in DOMAIN historical_data[d]})
    IN  [i \in 1..Len(dates) |-> historical_data[dates[i]][metric]]

Recent(v) ==
    LET k == IF Len(v) < 3 THEN Len(v) ELSE 3
    IN  RDiv(RSum(SubSeq(v, Len(v) - k + 1, Len(v))), R(k))

Earlier(v) == SubSeq(v, 1, Len(v) - 3)

Baseline(v) ==
    IF Len(v) > 3 THEN RDiv(RSum(Earlier(v)), R(Len(v) - 3)) ELSE v[1]

C9_TrendValues ==
    TrendsComputed =>
        \A metric \in TrendMetrics :
            LET v == WindowValues(metric)
            IN  Len(v) >= 2 =>
                  /\ metric \notin DOMAIN trends <=> Baseline(v) = R(0)
                  /\ metric \in DOMAIN trends =>
                       /\ trends[metric].recent_avg = Recent(v)
                       /\ trends[metric].baseline_avg = Baseline(v)
                       /\ trends[metric].percentage =
                              RMul(RDiv(RSub(Recent(v), Baseline(v)), Baseline(v)),
                                   R(100))

\* The claim as stated: the baseline is the mean of the values that are not
\* in the recent window, so a metric with a trend entry has such values.
C9_BaselineEarlierOnly ==
    TrendsComputed =>
        \A metric \in TrendMetrics :
            LET v == WindowValues(metric)
            IN  (Len(v) >= 2 /\ metric \in DOMAIN trends) =>
                  /\ Len(v) > 3
                  /\ trends[metric].baseline_avg
                         = RDiv(RSum(Earlier(v)), R(Len(v) - 3))

\* Four dates: sent_count has a trend whose baseline is the oldest value
\* alone, total_size has a baseline of 0 and no trend.
C9_Witness ==
    /\ pc = "health"
    /\ Len(WindowValues("sent_count")) = 4
    /\ Len(WindowValues("total_size")) = 4
    /\ "sent_count" \in DOMAIN trends
    /\ trends["sent_count"].baseline_avg = WindowValues("sent_count")[1]
    /\ "total_size" \notin DOMAIN trends

(***************************************************************************)
(* C10.  The direction of every trend entry is up iff its percentage is    *)
(* above 5, down iff it is below -5 and flat otherwise: a percentage of    *)
(* exactly 5 or exactly -5 is flat.                                        *)
(***************************************************************************)
C10_Direction ==
    TrendsComputed =>
        \A metric \in DOMAIN trends :
            LET n == trends[metric].percentage[1]
                d == trends[metric].percentage[2]
                direction == trends[metric].direction
            IN  /\ d > 0
                /\ direction = "up" <=> n > 5 * d
                /\ direction = "down" <=> n < -5 * d
                /\ direction = "flat" <=> (-5 * d <= n /\ n <= 5 * d)

\* One metric at exactly 5 percent and one at exactly -5 percent, both flat.
C10_Witness ==
    /\ pc = "health"
    /\ {"sent_count", "total_size"} \subseteq DOMAIN trends
    /\ trends["sent_count"].percentage = R(5)
    /\ trends["sent_count"].direction = "flat"
    /\ trends["total_size"].percentage = R(-5)
    /\ trends["total_size"].direction = "flat"

(***************************************************************************)
(* C11.  Once save_historical_data has written the history file, the file  *)
(* holds today's date and no date more than 30 days before it.             *)
(***************************************************************************)
Saved == pc \in {"report", "send", "done"} /\ env.history_write = "ok"

C11_Pruned ==
    Saved =>
        /\ history_file.state = "valid"
        /\ today_date \in DOMAIN history_file.doc
        /\ \A d \in DOMAIN history_file.doc : d >= today_date - 30

\* The second invocation, a day later: the date that was 30 days old is cut
\* from the file (main()'s own dictionary still holds it).
C11_Witness ==
    /\ Saved
    /\ run = 2
    /\ -31 \in DOMAIN historical_data
    /\ -31 \notin DOMAIN history_file.doc
    /\ {-30, -1, 0} \subseteq DOMAIN history_file.doc

(***************************************************************************)
(* C12.  When the history file is missing, unreadable or invalid (not a    *)
(* JSON object of dates), the invocation takes the history for empty,      *)
(* computes no trends and does not fail on it.                             *)
(***************************************************************************)
BadHistory(file) ==
    \/ file.state \in {"missing", "malformed", "unreadable"}
    \/ file.state = "valid" /\ JsonArray(file.doc)

HistoryErrors ==
    {<<"PermissionError", 211>>, <<"AttributeError", 236>>, <<"TypeError", 219>>}

C12_HistoryFailsSoft ==
    (run = 1 /\ BadHistory(history_file)) =>
        /\ raised \notin HistoryErrors
        /\ pc \in {"pass1", "pass2", "trends", "health", "save"} =>
               (historical_data = EmptyDict /\ trends = EmptyDict)

(***************************************************************************)
(* C13.  Whatever makes the write of the history file fail, the invocation *)
(* goes on to build its report; the file is left as it was.                *)
(***************************************************************************)
C13_WriteFailureSurvived ==
    env.history_write # "ok" =>
        /\ raised # <<"OSError", 226>>
        /\ pc \in {"report", "send", "done"} => today_date \in DOMAIN historical_data

(***************************************************************************)
(* C14.  With no log source configured the invocation aborts: no           *)
(* aggregate is computed, no history is written, no report is produced.    *)
(***************************************************************************)
C14_NoSourcesAbort ==
    files = <<>> =>
        /\ stats = NoStats
        /\ reported = <<>>
        /\ pc \notin {"report", "send", "done"}

(***************************************************************************)
(* C15.  A log file that is missing gives no lines and no error, and a     *)
(* log file whose open() fails otherwise is left out alone: when the first *)
(* pass is over, it has read every line of every other file.               *)
(***************************************************************************)
RECURSIVE ReadableLines(_, _, _, _)
ReadableLines(fs, n, today, e) ==
    IF n = 0 THEN <<>>
    ELSE ReadableLines(fs, n - 1, today, e)
         \o (IF n \in e.log_errors THEN <<>> ELSE FileLines(fs, n, today))

C15_ReadFailureConfined ==
    (pc \notin {"start", "pass1"} /\ raised \in {NotRaised, <<"OSError", 187>>}) =>
        ctx = FoldPass1(NewCtx, ReadableLines(files, Len(files), today_date, env))

(***************************************************************************)
(* C20.  Whatever the second pass has counted, a per-sender retry counter  *)
(* that is not empty included, no exception is raised while the report is  *)
(* built (lines 632-1338): the invocation reaches the send step.           *)
(***************************************************************************)
C20_ReportIsBuilt ==
    /\ raised # NotRaised => ~(raised[2] >= 632 /\ raised[2] <= 1338)
    /\ (pc = "crashed" /\ raised # NotRaised /\ agg.retry_patterns # EmptyDict)
           => raised[2] < 632

(***************************************************************************)
(* C17.  A sent line adds one entry to mail_loops iff it has a delay under *)
(* 0.1 s, a sender and a recipient, and either the two are equal or both   *)
(* are in the domain eusd.org; any other line adds none.  The line with    *)
(* delay 0.05 from a@eusd.org to b@eusd.org adds the one entry             *)
(* Internal loop: a@eusd.org -> b@eusd.org.                                *)
(***************************************************************************)
IsLoop(line) ==
    /\ line.st_sent
    /\ line.delay >= 0 /\ line.delay < 10
    /\ line.from # NoAddr /\ line.to # NoAddr
    /\ \/ line.from = line.to
       \/ line.from[2] = "eusd.org" /\ line.to[2] = "eusd.org"

C17_MailLoops ==
    [][(pc = "pass2" /\ idx' = idx + 1) =>
         LET line == Input[idx + 1]
             before == agg.mail_loops
             after == agg'.mail_loops
         IN  /\ IsLoop(line) =>
                   (Len(after) = Len(before) + 1 /\ SubSeq(after, 1, Len(before)) = before)
             /\ ~IsLoop(line) => after = before
             /\ line = LLoop =>
                   after[Len(after)]
                       = <<"Internal loop", <<"a", "eusd.org">>, <<"b", "eusd.org">>>>]_vars

\* The internal loop of the example, then the same line with delay 0.1.
C17_Witness ==
    /\ pc = "pass2"
    /\ idx = 2
    /\ Input = <<LLoop, LEdge>>
    /\ agg.mail_loops = <<<<"Internal loop", <<"a", "eusd.org">>, <<"b", "eusd.org">>>>>>
    /\ agg.sent_count = 2

(***************************************************************************)
(* C19.  A deferred line increments deferred_count and exactly one error   *)
(* category: that of the first of Connection timed out, Connection         *)
(* refused, Temporary lookup failure, Temporary failure, Greylisted that   *)
(* the line contains, Other Deferred when it contains none.                *)
(***************************************************************************)
DeferredPriority ==
    << <<"Connection timed out", "Connection Timeout">>,
       <<"Connection refused", "Connection Refused">>,
       <<"Temporary lookup failure", "DNS Issues">>,
       <<"Temporary failure", "Temporary Failure">>,
       <<"Greylisted", "Greylisted">> >>

FirstMatch(marks) ==
    LET hits == {i \in DOMAIN DeferredPriority : DeferredPriority[i][1] \in marks}
    IN  IF hits = {} THEN "Other Deferred"
        ELSE DeferredPriority[CHOOSE i \in hits : \A j \in hits : i <= j][2]

C19_DeferredCategory ==
    [][(pc = "pass2" /\ idx' = idx + 1
          /\ Input[idx + 1].st_deferred /\ ~Input[idx + 1].st_sent) =>
         LET category == FirstMatch(Input[idx + 1].marks)
             before == agg.error_categories
             after == agg'.error_categories
         IN  /\ agg'.deferred_count = agg.deferred_count + 1
             /\ DOMAIN after = DOMAIN before \cup {category}
             /\ after[category] = Get(before, category, 0) + 1
             /\ \A k \in DOMAIN before : k # category => after[k] = before[k]]_vars

\* Connection timed out, then a line with Temporary failure and Greylisted.
C19_Witness ==
    /\ pc = "pass2"
    /\ idx = 2
    /\ Input = <<LDeferred, LDefTempGrey>>
    /\ agg.deferred_count = 2
    /\ agg.error_categories
           = [k \in {"Connection Timeout", "Temporary Failure"} |-> 1]

(***************************************************************************)
(* C16.  health_score = max(0, 100 - 2 * max(0, 95 - success_rate)         *)
(* - min(max(0, avg_queue_time - 30), 20) - min(5 * number of distinct     *)
(* users in auth_failures, 30) - 10 * number of mail loops), and it lies   *)
(* between 0 and 100.                                                      *)
(***************************************************************************)
HealthComputed ==
    \/ pc \in {"save", "report", "send", "done"}
    \/ pc = "crashed" /\ raised # NotRaised /\ raised[2] > 581

\* The users of the authentication-failure lines the first pass has read.
FailedUsers ==
    {Input[i].auth_user : i \in {k \in 1..Len(Input) : Input[k].auth_fail}}

HealthFormula ==
    LET below == RMax(R(0), RSub(R(95), stats.success_rate))
        waiting == RMin(RMax(R(0), RSub(stats.avg_queue_time, R(30))), R(20))
        users == Cardinality(FailedUsers)
        auth == IF 5 * users < 30 THEN 5 * users ELSE 30
        loops == Len(agg.mail_loops)
    IN  RMax(R(0),
             RSub(RSub(RSub(RSub(R(100), RMul(R(2), below)), waiting), R(auth)),
                  R(10 * loops)))

C16_HealthScore ==
    HealthComputed =>
        /\ stats.health_score = HealthFormula
        /\ RLe(R(0), stats.health_score)
        /\ RLe(stats.health_score, R(100))

\* Six users (one of them three times), one loop, nineteen deliveries of 40 s
\* and the loop line, one deferred line: 100 - 0 - 8.0025 - 30 - 10.
C16_Witness ==
    /\ pc = "save"
    /\ Cardinality(FailedUsers) = 6
    /\ CounterTotal(ctx.auth_failures) = 8
    /\ Len(agg.mail_loops) = 1
    /\ stats.total_messages = 21
    /\ stats.avg_queue_time = Rat(19 * 4000 + 5, 2000)
    /\ stats.health_score = Rat((100 - 30 - 10) * 2000 - (19 * 4000 + 5 - 30 * 2000), 2000)

(***************************************************************************)
(* C18.  The alert list is a subsequence of the fixed order success-rate   *)
(* floor, queue-time ceiling, authentication-failure ceiling, mail-loop    *)
(* presence, success-rate trend below -10 percent, queue-time trend above  *)
(* 50 percent, peak-hour volume, defer rate, average message size,         *)
(* throughput; the alert of a rule is in the list iff the condition of     *)
(* that rule holds, whatever the other rules do.                           *)
(***************************************************************************)
RuleOrder ==
    <<"Low success rate", "High queue time", "authentication failures",
      "potential mail loops detected", "Success rate declining",
      "Queue time increasing", "Peak hour volume", "High defer rate",
      "Large average message size", "High throughput">>

RuleHolds(r) ==
    CASE r = 1 -> RLt(stats.success_rate, R(95))
      [] r = 2 -> RLt(R(30), stats.avg_queue_time)
      [] r = 3 -> CounterTotal(ctx.auth_failures) > 50
      [] r = 4 -> Len(agg.mail_loops) > 0
      [] r = 5 -> "success_rate" \in DOMAIN trends
                      /\ RLt(trends["success_rate"].percentage, R(-10))
      [] r = 6 -> "avg_queue_time" \in DOMAIN trends
                      /\ RLt(R(50), trends["avg_queue_time"].percentage)
      [] r = 7 -> \E h \in DOMAIN agg.hourly_traffic : agg.hourly_traffic[h] > 500
      [] r = 8 -> stats.total_messages > 0
                      /\ agg.deferred_count * 100 > 5 * stats.total_messages
      [] r = 9 -> stats.total_messages > 0
                      /\ RLt(R(10485760), Rat(agg.total_size, stats.total_messages))
      [] OTHER -> stats.total_messages > 100 * 24 * 60

Fired == {r \in DOMAIN RuleOrder : RuleHolds(r)}

C18_AlertOrder ==
    HealthComputed =>
        /\ Len(alerts) = Cardinality(Fired)
        /\ \A i \in DOMAIN alerts :
               \E r \in Fired :
                   /\ alerts[i][1] = RuleOrder[r]
                   /\ Cardinality({q \in Fired : q < r}) = i - 1

\* Four rules fire at once, the six others are skipped in between: one
\* delivery of 40 s and 10485761 bytes, 51 authentication failures, a history
\* whose queue time went from 10 s to 30 s.
C18_Witness ==
    /\ pc = "save"
    /\ Fired = {2, 3, 6, 9}
    /\ alerts = << <<"High queue time", R(40)>>,
                   <<"authentication failures", 51>>,
                   <<"Queue time increasing", R(100)>>,
                   <<"Large average message size", R(10485761)>> >>

(***************************************************************************)
(* C21.  After the first pass no step writes message_clients,              *)
(* message_sizes or sending_hosts: at the end of the run they are what the *)
(* first pass left.                                                        *)
(***************************************************************************)
ClientContext(c) == <<c.message_clients, c.message_sizes, c.sending_hosts>>

C21_ContextFrozen ==
    [][/\ pc \notin {"start", "pass1"} => ClientContext(ctx') = ClientContext(ctx)
       /\ pc' = "done" =>
              ClientContext(ctx') = ClientContext(RunPass1(files, today_date))]_vars

\* A client line, a qmgr line and the sent line of the same id: the run has
\* ended and the three maps hold what the first pass recorded.
C21_Witness ==
    /\ pc = "done"
    /\ agg.sent_count = 1
    /\ agg.total_size = 2048
    /\ ctx.message_clients = [k \in {"A1"} |-> "host1"]
    /\ ctx.message_sizes = [k \in {"A1"} |-> 2048]
    /\ ctx.sending_hosts = [k \in {"host1"} |-> 1]

(***************************************************************************)
(* C22.  The size of a sent line is the size the first pass recorded for   *)
(* its id and, when none was recorded, the size= value of the line itself; *)
(* it is added to total_size and counted in exactly one of the buckets     *)
(* [0, 1 KiB), [1 KiB, 10 KiB), [10 KiB, 100 KiB), [100 KiB, 1 MiB),       *)
(* [1 MiB, inf).                                                           *)
(***************************************************************************)
Buckets ==
    << <<0, 1024, "<1KB">>, <<1024, 10240, "1-10KB">>,
       <<10240, 102400, "10-100KB">>, <<102400, 1048576, "100KB-1MB">>,
       <<1048576, -1, ">1MB">> >>

BucketOf(size) ==
    LET i == CHOOSE k \in DOMAIN Buckets :
                 Buckets[k][1] <= size /\ (Buckets[k][2] = -1 \/ size < Buckets[k][2])
    IN  Buckets[i][3]

\* The step counts size in its bucket and in total_size, and in no other bucket.
SizeCounted(size) ==
    /\ agg'.total_size = agg.total_size + size
    /\ DOMAIN agg'.size_distribution = DOMAIN agg.size_distribution \cup {BucketOf(size)}
    /\ \A b \in DOMAIN agg'.size_distribution :
           agg'.size_distribution[b] =
               Get(agg.size_distribution, b, 0) + (IF b = BucketOf(size) THEN 1 ELSE 0)

SentStep == pc = "pass2" /\ idx' = idx + 1 /\ Input[idx + 1].st_sent

\* The half of the claim about a size the first pass recorded.
RecordedSizeCounted ==
    [][(SentStep /\ Input[idx + 1].smtp_id \in DOMAIN ctx.message_sizes) =>
           SizeCounted(ctx.message_sizes[Input[idx + 1].smtp_id])]_vars

C22_SizeResolved ==
    [][SentStep =>
         LET line == Input[idx + 1]
         IN  IF line.smtp_id \in DOMAIN ctx.message_sizes
             THEN SizeCounted(ctx.message_sizes[line.smtp_id])
             ELSE line.inline_size >= 0 => SizeCounted(line.inline_size)]_vars

(***************************************************************************)
(* C23.  The list of mail loops is capped: however many sent lines are     *)
(* taken for loops, its length stays within a fixed bound.  The only limit *)
(* the program has on the loops is the ten entries the report shows.       *)
(***************************************************************************)
\* line 939: mail_loops[:10]
LoopCap == 10

C23_LoopsCapped == Len(agg.mail_loops) <= LoopCap

(***************************************************************************)
(* C24.  The list of raw deferred and bounced lines is bounded: however    *)
(* many such lines are read, no more than a fixed number is retained.  The *)
(* only limit the program has on them is the ten last lines the report     *)
(* shows.                                                                  *)
(***************************************************************************)
\* lines 1151 and 1323: errors[-10:]
ErrorWindow == 10

C24_ErrorsBounded == Len(agg.errors) <= ErrorWindow

(***************************************************************************)
(* C25.  Invocations that follow one another on the same date over the     *)
(* same logs produce the same trends and the same alerts, and the history  *)
(* file keeps one entry for the date: a later invocation writes today's    *)
(* entry over the one before and leaves the other entries as they were.    *)
(***************************************************************************)
SameIssue == \A i, j \in 1..Len(issued) : issued[i] = issued[j]

OverwritesToday ==
    (run > 1 /\ pc = "save" /\ pc' = "report") =>
        /\ DOMAIN history_file'.doc = DOMAIN history_file.doc
        /\ \A d \in DOMAIN history_file.doc :
               d # today_date => history_file'.doc[d] = history_file.doc[d]

C25_RerunSameIssue == [](SameIssue) /\ [][OverwritesToday]_vars

(***************************************************************************)
(* C26.  No division by zero: no step raises ZeroDivisionError, and        *)
(* whenever the report computes the ratio of the peak to the minimum       *)
(* hourly count (more than 100 messages) the minimum is above zero, also   *)
(* when every message is deferred or bounced or when no sent line carried  *)
(* an hour.                                                                *)
(***************************************************************************)
RatioComputed == pc' \in {"send", "crashed"} /\ pc = "report" /\ stats.total_messages > 100

C26_NoDivisionByZero ==
    [][/\ raised' # NotRaised => raised'[1] # "ZeroDivisionError"
       /\ RatioComputed => MinValue(agg.hourly_traffic) > 0]_vars

(***************************************************************************)
(* C27.  When no line of the logs is classified, total_messages is 0,      *)
(* success_rate is 0, health_score is 0 and the first alert is the one for *)
(* the low success rate, although nothing was deferred or bounced.         *)
(***************************************************************************)
NoneClassified ==
    \A i \in DOMAIN Input :
        ~(Input[i].st_sent \/ Input[i].st_deferred \/ Input[i].st_bounced)

C27_IdleDayUnhealthy ==
    (HealthComputed /\ NoneClassified) =>
        /\ stats.total_messages = 0
        /\ agg.deferred_count = 0 /\ agg.bounced_count = 0
        /\ stats.success_rate = R(0)
        /\ stats.health_score = R(0)
        /\ alerts # <<>>
        /\ alerts[1] = <<"Low success rate", R(0)>>

\* Empty logs: the score is 0 and the one alert is the low success rate.
C27_Witness ==
    /\ pc = "save"
    /\ Input = <<>>
    /\ stats.total_messages = 0
    /\ stats.health_score = R(0)
    /\ alerts = << <<"Low success rate", R(0)>> >>

(***************************************************************************)
(* C28.  postfix_queue_alert.py sends an alert iff the total it counted is *)
(* at least ALERT_THRESHOLD (5).  When mailq fails the counts are          *)
(* (-1, -1, -1): no alert is sent and the run ends without an error.       *)
(***************************************************************************)
C28_QueueAlert ==
    queue.pc = "done" =>
        /\ queue.alert # <<>> <=> queue.counts[1] >= 5
        /\ queue.alert # <<>> => queue.alert = queue.counts
        /\ ~queue.mailq.ok =>
               /\ queue.counts = <<-1, -1, -1>>
               /\ queue.alert = <<>>
               /\ queue.raised = <<>>

\* Exactly five counted lines, one of them active, and a deferred line.
C28_Witness ==
    /\ queue.pc = "done"
    /\ queue.counts = <<5, 1, 1>>
    /\ queue.alert = <<5, 1, 1>>

============================================================================
